---- MODULE Spec2Model ----
(***************************************************************************)
(* Model of src/local_processor.py: the local claims processor.            *)
(*                                                                         *)
(*   LocalAutocoder.autocode   entity words -> {"ICD": [...], "CPT": [...]}*)
(*   LocalRiskEngine           persisted classifier, score = mean of the   *)
(*                             generative and the statistical sub-score    *)
(*   simulate_payment          threshold decision, append to the ledger    *)
(*   main                      one batch pass over a directory listing     *)
(*                                                                         *)
(* Units.  Scores are held in thousandths (0.7 is 700, 0.5 is 500), money  *)
(* in cents (150.0 is 15000), so that the arithmetic of the code is exact  *)
(* integer arithmetic here.  An entity word is the sequence of its         *)
(* characters, so that `in` on strings is a real substring test.           *)
(*                                                                         *)
(* The files on disk (risk_model.pkl, paid_claims.csv) outlive a process,  *)
(* so the model runs the program several times in a row over them.         *)
(***************************************************************************)
EXTENDS Integers, Sequences, FiniteSets, TLC

\* ------------------------------------------------------------------ bounds
\* Longest directory listing handed to one batch run.
MaxFiles == 2
\* Number of times the program is started over the same working directory.
MaxRuns == 2
\* Longest entity sequence the extractor returns to a bare autocode call.
MaxEntities == 2

\* ------------------------------------------------- strings as characters
diabetes == <<"d","i","a","b","e","t","e","s">>
blood_test == <<"b","l","o","o","d"," ","t","e","s","t">>
office_visit == <<"o","f","f","i","c","e"," ","v","i","s","i","t">>
test == <<"t","e","s","t">>
visit == <<"v","i","s","i","t">>

\* Words the entity extractor may hand back (ent['word']), besides the above.
Diabetes_cap == <<"D","i","a","b","e","t","e","s">>
prediabetes == <<"p","r","e","d","i","a","b","e","t","e","s">>
blood_tests == <<"b","l","o","o","d"," ","t","e","s","t","s">>
Lab_Test == <<"L","a","b"," ","T","e","s","t">>
fever == <<"f","e","v","e","r">>

EntityWords ==
    { diabetes, Diabetes_cap, prediabetes, blood_test, blood_tests,
      office_visit, test, Lab_Test, visit, fever }

UpperCase == <<"A","B","C","D","E","F","G","H","I","J","K","L","M",
               "N","O","P","Q","R","S","T","U","V","W","X","Y","Z">>
LowerCase == <<"a","b","c","d","e","f","g","h","i","j","k","l","m",
               "n","o","p","q","r","s","t","u","v","w","x","y","z">>

\* str.lower(), character by character.
lower_char(c) ==
    IF \E k \in DOMAIN UpperCase : UpperCase[k] = c
    THEN LowerCase[CHOOSE k \in DOMAIN UpperCase : UpperCase[k] = c]
    ELSE c

lower(word) == [k \in 1..Len(word) |-> lower_char(word[k])]

\* `sub in word` on Python strings.
contains(sub, word) ==
    \E s \in 0..(Len(word) - Len(sub)) : SubSeq(word, s + 1, s + Len(sub)) = sub

\* ------------------------------------------------------- LocalAutocoder
code_map ==
    [k \in {diabetes, blood_test, office_visit} |->
        CASE k = diabetes -> "E11.9"
          [] k = blood_test -> "82947"
          [] k = office_visit -> "99213"]

\* dict.get(word, default): an exact-key lookup.
code_map_get(word, default) ==
    IF word \in DOMAIN code_map THEN code_map[word] ELSE default

\* A variant in which only the first key is a diagnosis phrase.
diagnosis_vocab_first_only == {diabetes}

\* `for diag in self.code_map` iterates the keys of the map.
diagnosis_vocab == DOMAIN code_map

procedure_vocab == {test, visit}

is_diagnosis(word) == \E diag \in diagnosis_vocab : contains(diag, word)

is_procedure(word) == \E proc \in procedure_vocab : contains(proc, word)

EmptyCodes == [ICD |-> <<>>, CPT |-> <<>>]

\* A variant of the loop body that records a code once only.
autocode_step_dedup(codes, ent) ==
    LET word == lower(ent)
        code == code_map_get(word, "Unmapped")
        once(list) == IF \E k \in DOMAIN list : list[k] = code
                      THEN list ELSE Append(list, code)
    IN  IF is_diagnosis(word)
        THEN [codes EXCEPT !.ICD = once(@)]
        ELSE IF is_procedure(word)
             THEN [codes EXCEPT !.CPT = once(@)]
             ELSE codes

\* One iteration of the loop over the entities.
autocode_step(codes, ent) ==
    LET word == lower(ent)
    IN  IF is_diagnosis(word)
        THEN [codes EXCEPT !.ICD = Append(@, code_map_get(word, "Unmapped"))]
        ELSE IF is_procedure(word)
             THEN [codes EXCEPT !.CPT = Append(@, code_map_get(word, "Unmapped"))]
             ELSE codes

RECURSIVE autocode_loop(_, _, _)
autocode_loop(ents, k, codes) ==
    IF k > Len(ents) THEN codes
    ELSE autocode_loop(ents, k + 1, autocode_step(codes, ents[k]))

\* autocode, given what the extractor returned for the claim text.
autocode(ents) == autocode_loop(ents, 1, EmptyCodes)

\* ------------------------------------------------------ LocalRiskEngine
\* llm_score when the oracle call or the parse of its answer fails.
FallbackScore == 500

\* What ollama.generate can do: raise, or answer with a text, held here as
\* the list of its whitespace-delimited tokens (resp['response'].split()).
OracleOutcomes ==
    { [kind |-> "raise", tokens |-> <<>>],
      [kind |-> "text",  tokens |-> <<>>],
      [kind |-> "text",  tokens |-> <<"high", "risk">>],
      [kind |-> "text",  tokens |-> <<"0.9">>],
      [kind |-> "text",  tokens |-> <<"5", "/", "10">>] }

NoOutcome == [kind |-> "none", tokens |-> <<>>]

\* float(token): the value in thousandths, or a ValueError.
to_float(token) ==
    CASE token = "0.9" -> [ok |-> TRUE, value |-> 900]
      [] token = "0.5" -> [ok |-> TRUE, value |-> 500]
      [] token = "5"   -> [ok |-> TRUE, value |-> 5000]
      [] token = "10"  -> [ok |-> TRUE, value |-> 10000]
      [] OTHER         -> [ok |-> FALSE, value |-> 0]

\* The try/except of score: any exception gives the fallback.
generative_score(outcome) ==
    IF outcome.kind = "raise" THEN FallbackScore
    ELSE IF Len(outcome.tokens) = 0 THEN FallbackScore
    ELSE LET f == to_float(outcome.tokens[1])
         IN  IF f.ok THEN f.value ELSE FallbackScore

\* Probabilities clf.predict_proba can return, in thousandths.
MlScores == {500, 900}

final_score(llm, ml) == (llm + ml) \div 2

\* ------------------------------------------------------ simulate_payment
Threshold == 700
PayoutPercent == 98

CsvHeader == [columns |-> <<"codes", "score", "paid_amount", "status", "timestamp">>]

\* str(coded_claim), the rendering of the dict.
str_codes(c) == <<"ICD", c.ICD, "CPT", c.CPT>>

\* The row of the DataFrame (the wall-clock timestamp column is left out).
csv_row(coded_claim, sc, paid_amount) ==
    [codes |-> str_codes(coded_claim), score |-> sc,
     paid_amount |-> paid_amount, status |-> "Paid"]

\* DataFrame.to_csv(mode='a', header=not os.path.exists(output_csv)).
\* An absent file is the empty sequence.
to_csv_append(csv, row) ==
    IF csv = <<>> THEN <<CsvHeader, row>> ELSE Append(csv, row)

\* A variant that pays at the threshold too.
simulate_payment_inclusive(coded_claim, sc, value, csv) ==
    IF sc >= Threshold
    THEN LET paid_amount == (value * PayoutPercent) \div 100
         IN  [paid |-> TRUE, amount |-> paid_amount,
              csv |-> to_csv_append(csv, csv_row(coded_claim, sc, paid_amount))]
    ELSE [paid |-> FALSE, amount |-> 0, csv |-> csv]

\* A variant that writes the file afresh (mode='w').
simulate_payment_overwrite(coded_claim, sc, value, csv) ==
    IF sc > Threshold
    THEN LET paid_amount == (value * PayoutPercent) \div 100
         IN  [paid |-> TRUE, amount |-> paid_amount,
              csv |-> <<CsvHeader, csv_row(coded_claim, sc, paid_amount)>>]
    ELSE [paid |-> FALSE, amount |-> 0, csv |-> csv]

\* Returns (paid, paid_amount) and the file as it leaves it.
simulate_payment(coded_claim, sc, value, csv) ==
    IF sc > Threshold
    THEN LET paid_amount == (value * PayoutPercent) \div 100
         IN  [paid |-> TRUE, amount |-> paid_amount,
              csv |-> to_csv_append(csv, csv_row(coded_claim, sc, paid_amount))]
    ELSE [paid |-> FALSE, amount |-> 0, csv |-> csv]

\* pd.read_csv: the data rows of the file.
read_csv(csv) == IF csv = <<>> THEN <<>> ELSE Tail(csv)

\* ------------------------------------------------------------------ inputs
\* claim_value when the record carries no amount (in cents).
DefaultClaimValue == 15000

\* Amounts parse_hl7_claim can return (in cents).
ClaimValues == {0, DefaultClaimValue}

\* Entity sequences the extractor returns inside a batch run.
ClaimEntityLists == { <<>>, <<diabetes, Lab_Test>> }

\* Entity sequences handed to a bare autocode call.
EntityLists ==
    UNION { [1..n -> EntityWords] : n \in 0..MaxEntities }

\* Names os.listdir can return, and str.endswith('.hl7') on them.
FileNames == {"claim.hl7", "notes.txt"}

endswith_hl7(name) == name \in {"claim.hl7"}

Listings == UNION { [1..n -> FileNames] : n \in 0..MaxFiles }

\* ------------------------------------------------------------------- state
VARIABLES
    run,                \* how many times the program has been started
    pc,                 \* where main stands
    err,                \* the exception that ended the process, or "none"
    files,              \* os.listdir(hl7_dir)
    i,                  \* position of the for loop in files
    claim_value,        \* main's locals for the claim in hand
    entities,           \*   what the extractor returned for it
    coded,
    resp,               \*   the oracle's outcome inside score
    llm_score,
    ml_score,
    score,
    paid,
    amount,
    rejections,
    out,                \* the lines printed by this process
    paid_claims_csv,    \* the file paid_claims.csv (<<>> when absent)
    risk_model_pkl,     \* the file risk_model.pkl
    vectorizer_fitted,  \* LocalRiskEngine.vectorizer has a vocabulary
    clf_fitted          \* LocalRiskEngine.clf has coefficients

locals == <<claim_value, entities, coded, resp, llm_score, ml_score, score, paid, amount>>
engine == <<risk_model_pkl, vectorizer_fitted, clf_fitted>>
vars == <<run, pc, err, files, i, locals, rejections, out, paid_claims_csv, engine>>

NoPkl == [exists |-> FALSE, fitted |-> FALSE]

\* Everything but the position of the program and the extractor's answer.
InitRest ==
    /\ run = 0
    /\ err = "none"
    /\ files = <<>>
    /\ i = 1
    /\ claim_value = 0
    /\ coded = EmptyCodes
    /\ resp = NoOutcome
    /\ llm_score = 0
    /\ ml_score = 0
    /\ score = 0
    /\ paid = FALSE
    /\ amount = 0
    /\ rejections = 0
    /\ out = <<>>
    /\ paid_claims_csv = <<>>
    /\ risk_model_pkl = NoPkl
    /\ vectorizer_fitted = FALSE
    /\ clf_fitted = FALSE

\* Before the program is first started: neither file exists.
Init ==
    /\ pc = "idle"
    /\ entities = <<>>
    /\ InitRest

ResetLocals ==
    /\ claim_value' = 0
    /\ entities' = <<>>
    /\ coded' = EmptyCodes
    /\ resp' = NoOutcome
    /\ llm_score' = 0
    /\ ml_score' = 0
    /\ score' = 0
    /\ paid' = FALSE
    /\ amount' = 0

\* LocalRiskEngine.__init__ with _train_mock_model: the state of the engine
\* and of risk_model.pkl once the constructor returns.  Only clf is dumped
\* and only clf is loaded; the vectorizer is fitted by the training alone.
risk_engine_init(pkl) ==
    IF pkl.exists
    THEN [vectorizer_fitted |-> FALSE, clf_fitted |-> pkl.fitted, pkl |-> pkl]
    ELSE [vectorizer_fitted |-> TRUE, clf_fitted |-> TRUE,
          pkl |-> [exists |-> TRUE, fitted |-> TRUE]]

\* python local_processor.py: a new process; main up to the for loop.
StartProcess ==
    /\ pc \in {"idle", "done", "crashed"}
    /\ run < MaxRuns
    /\ run' = run + 1
    /\ \E listing \in Listings : files' = listing
    /\ LET e == risk_engine_init(risk_model_pkl)
       IN  /\ vectorizer_fitted' = e.vectorizer_fitted
           /\ clf_fitted' = e.clf_fitted
           /\ risk_model_pkl' = e.pkl
    /\ rejections' = 0
    /\ out' = <<>>
    /\ err' = "none"
    /\ i' = 1
    /\ pc' = "loop"
    /\ ResetLocals
    /\ UNCHANGED paid_claims_csv

\* The for loop passes over a name that does not end in .hl7.
SkipFile ==
    /\ pc = "loop"
    /\ i <= Len(files)
    /\ ~endswith_hl7(files[i])
    /\ i' = i + 1
    /\ UNCHANGED <<run, pc, err, files, locals, rejections, out, paid_claims_csv, engine>>

\* claim_text, claim_value = autocoder.parse_hl7_claim(...)
ParseClaim ==
    /\ pc = "loop"
    /\ i <= Len(files)
    /\ endswith_hl7(files[i])
    /\ \E v \in ClaimValues : claim_value' = v
    /\ pc' = "parsed"
    /\ UNCHANGED <<run, err, files, i, entities, coded, resp, llm_score, ml_score,
                   score, paid, amount, rejections, out, paid_claims_csv, engine>>

\* coded = autocoder.autocode(claim_text), the extractor answering.
Autocode ==
    /\ pc = "parsed"
    /\ \E ents \in ClaimEntityLists :
          /\ entities' = ents
          /\ coded' = autocode(ents)
    /\ pc' = "coded"
    /\ UNCHANGED <<run, err, files, i, claim_value, resp, llm_score, ml_score,
                   score, paid, amount, rejections, out, paid_claims_csv, engine>>

\* A variant in which main catches the extractor's exception and goes on.
AutocodeRaisesAndContinues ==
    /\ pc = "parsed"
    /\ err' = "ExtractionFailure"
    /\ i' = i + 1
    /\ pc' = "loop"
    /\ UNCHANGED <<run, files, locals, rejections, out, paid_claims_csv, engine>>

\* self.ner_pipeline(claim_text) raises: nothing in autocode or main catches.
AutocodeRaises ==
    /\ pc = "parsed"
    /\ err' = "ExtractionFailure"
    /\ pc' = "crashed"
    /\ UNCHANGED <<run, files, i, locals, rejections, out, paid_claims_csv, engine>>

\* score = risk_engine.score(coded, claim_text)
Score ==
    /\ pc = "coded"
    /\ \E outcome \in OracleOutcomes :
          /\ resp' = outcome
          /\ llm_score' = generative_score(outcome)
          /\ IF vectorizer_fitted /\ clf_fitted
             THEN \E ml \in MlScores :
                     /\ ml_score' = ml
                     /\ score' = final_score(generative_score(outcome), ml)
                     /\ pc' = "scored"
                     /\ err' = err
             ELSE \* transform / predict_proba raise NotFittedError
                  /\ err' = "NotFittedError"
                  /\ pc' = "crashed"
                  /\ UNCHANGED <<ml_score, score>>
    /\ UNCHANGED <<run, files, i, claim_value, entities, coded, paid, amount,
                   rejections, out, paid_claims_csv, engine>>

\* paid, amount = simulate_payment(coded, score, claim_value)
Settle ==
    /\ pc = "scored"
    /\ LET r == simulate_payment(coded, score, claim_value, paid_claims_csv)
       IN  /\ paid' = r.paid
           /\ amount' = r.amount
           /\ paid_claims_csv' = r.csv
    /\ pc' = "settled"
    /\ UNCHANGED <<run, err, files, i, claim_value, entities, coded, resp, llm_score,
                   ml_score, score, rejections, out, engine>>

\* A variant that counts every claim as a rejection.
count_rejection_always(is_paid, n) == n + 1

\* if not paid: rejections += 1
count_rejection(is_paid, n) == IF ~is_paid THEN n + 1 ELSE n

\* The line printed for a decided claim.
outcome_line(is_paid) ==
    IF ~is_paid
    THEN [kind |-> "Rejected", file |-> i, score |-> score]
    ELSE [kind |-> "Paid", file |-> i, codes |-> coded, score |-> score,
          amount |-> amount]

\* The if/else after simulate_payment; the loop moves on.  The claim's
\* locals are dead from here on (each is assigned again before it is read).
Report ==
    /\ pc = "settled"
    /\ rejections' = count_rejection(paid, rejections)
    /\ out' = Append(out, outcome_line(paid))
    /\ i' = i + 1
    /\ pc' = "loop"
    /\ ResetLocals
    /\ UNCHANGED <<run, err, files, paid_claims_csv, engine>>

\* print(f"Batch complete: ...") once the loop is exhausted.
Summary ==
    /\ pc = "loop"
    /\ i > Len(files)
    /\ out' = Append(out, [kind |-> "Batch complete", rejections |-> rejections])
    /\ pc' = "metrics"
    /\ UNCHANGED <<run, err, files, i, locals, rejections, paid_claims_csv, engine>>

RECURSIVE sum_paid_amount(_)
sum_paid_amount(rows) ==
    IF rows = <<>> THEN 0 ELSE Head(rows).paid_amount + sum_paid_amount(Tail(rows))

\* run_portal_metrics: reads the two files; total_paid is bound only when
\* paid_claims.csv exists.
PortalMetrics ==
    /\ pc = "metrics"
    /\ \E historical_exists \in BOOLEAN :
          LET rows == read_csv(paid_claims_csv)
              total_paid == sum_paid_amount(rows)
              line1 == [kind |-> "Portal Metrics", paid_claims |-> Len(rows),
                        total_paid |-> total_paid]
              line2 == [kind |-> "Portfolio", current |-> total_paid]
              out1 == IF paid_claims_csv # <<>> THEN Append(out, line1) ELSE out
          IN  IF historical_exists /\ paid_claims_csv = <<>>
              THEN /\ out' = out1
                   /\ err' = "NameError"
                   /\ pc' = "crashed"
              ELSE /\ out' = IF historical_exists THEN Append(out1, line2) ELSE out1
                   /\ err' = err
                   /\ pc' = "done"
    /\ UNCHANGED <<run, files, i, locals, rejections, paid_claims_csv, engine>>

Next ==
    \/ StartProcess
    \/ SkipFile
    \/ ParseClaim
    \/ Autocode
    \/ AutocodeRaises
    \/ Score
    \/ Settle
    \/ Report
    \/ Summary
    \/ PortalMetrics

Spec == Init /\ [][Next]_vars

\* ---------------------------------------------- autocode called on its own
\* A LocalAutocoder about to code a text for which the extractor returns
\* some sequence of entities.
CoderInit ==
    /\ pc = "autocode"
    /\ entities \in EntityLists
    /\ InitRest

AutocodeCall ==
    /\ pc = "autocode"
    /\ coded' = autocode(entities)
    /\ pc' = "returned"
    /\ UNCHANGED <<run, err, files, i, claim_value, entities, resp, llm_score, ml_score,
                   score, paid, amount, rejections, out, paid_claims_csv, engine>>

CoderNext == AutocodeCall

CoderSpec == CoderInit /\ [][CoderNext]_vars

\* =================================================================== claims
\* Helpers of the statements below.
IsOutcomeLine(l) == l.kind \in {"Paid", "Rejected"}
NumLines(kind) == Cardinality({k \in DOMAIN out : out[k].kind = kind})
NumOutcomes == NumLines("Paid") + NumLines("Rejected")
NumClaimsUpTo(n) == Cardinality({k \in 1..n : k <= Len(files) /\ endswith_hl7(files[k])})
NumClaims == NumClaimsUpTo(Len(files))
IsPrefix(s, t) == Len(s) <= Len(t) /\ SubSeq(t, 1, Len(s)) = s
OracleFailed(o) ==
    \/ o.kind = "raise"
    \/ o.kind = "text" /\ o.tokens = <<>>
    \/ o.kind = "text" /\ o.tokens # <<>> /\ ~to_float(o.tokens[1]).ok
ContainedKeys(word) == {key \in DOMAIN code_map : contains(key, word)}
DiagnosisEntities == SelectSeq(entities, LAMBDA e : is_diagnosis(lower(e)))
ProcedureEntities ==
    SelectSeq(entities, LAMBDA e : ~is_diagnosis(lower(e)) /\ is_procedure(lower(e)))
AutocodeReturned == pc \in {"returned", "coded"}

\* C1: once simulate_payment has returned, the claim is Paid exactly when its
\* score is strictly above 0.7 (a score of exactly 0.7 is Rejected); a Paid
\* claim's paid_amount is claim_value * 0.98 and a Rejected claim's is 0.
C1_SettlementDecision ==
    pc = "settled" =>
        /\ paid <=> score > 700
        /\ paid => amount * 100 = claim_value * 98
        /\ ~paid => amount = 0

\* C1 witness: a claim of positive value scored exactly 0.7 has been rejected.
C1_Witness ==
    pc = "settled" /\ score = 700 /\ ~paid /\ claim_value > 0

\* C2: whatever the oracle answers, the value score returns is the mean of a
\* generative sub-score in [0,1] and the statistical sub-score, and so lies
\* in [0,1].
C2_ScoreInUnitInterval ==
    pc = "scored" =>
        /\ llm_score \in 0..1000
        /\ score * 2 = llm_score + ml_score
        /\ score \in 0..1000

\* C3: when the oracle call raises, answers with nothing, or answers with a
\* first token that is no number, the generative sub-score is 0.5, score does
\* not raise, and the claim goes on to its settlement decision.
C3_OracleFailureNeverPropagates ==
    OracleFailed(resp) =>
        /\ llm_score = 500
        /\ err = "none"
        /\ pc \in {"scored", "settled"}

\* C4: an entity whose lowercased text contains a key of the code map as a
\* substring is recorded with the billing code of a contained key; "Unmapped"
\* is recorded only for a text that contains no key.
C4_SubstringMapping ==
    AutocodeReturned =>
        /\ Len(coded.ICD) = Len(DiagnosisEntities)
        /\ \A k \in DOMAIN coded.ICD :
              coded.ICD[k] \in
                  {code_map[key] : key \in ContainedKeys(lower(DiagnosisEntities[k]))}
        /\ Len(coded.CPT) = Len(ProcedureEntities)
        /\ \A k \in DOMAIN coded.CPT :
              IF ContainedKeys(lower(ProcedureEntities[k])) = {}
              THEN coded.CPT[k] = "Unmapped"
              ELSE coded.CPT[k] \in
                      {code_map[key] : key \in ContainedKeys(lower(ProcedureEntities[k]))}

\* C5: in every run, with or without a persisted model at start-up, the
\* classifier and the vectorizer are both ready before score is called, and
\* no score call fails because of the state of the model.
C5_ModelReadyBeforeScore ==
    /\ pc \in {"loop", "parsed", "coded"} => (vectorizer_fitted /\ clf_fitted)
    /\ err # "NotFittedError"

C7_LedgerAppendOnly ==
    [][ /\ IsPrefix(paid_claims_csv, paid_claims_csv')
        /\ IsPrefix(read_csv(paid_claims_csv), read_csv(paid_claims_csv'))
        /\ (pc = "scored" /\ paid') =>
              read_csv(paid_claims_csv') =
                  Append(read_csv(paid_claims_csv),
                         [codes |-> str_codes(coded), score |-> score,
                          paid_amount |-> amount', status |-> "Paid"])
        /\ (pc = "scored" /\ ~paid') => paid_claims_csv' = paid_claims_csv
        /\ pc # "scored" => paid_claims_csv' = paid_claims_csv
      ]_vars

\* C7 witness: a claim has been rejected while the ledger already holds a
\* row, and a second row has been appended after a first.
C7_Witness ==
    \/ pc = "settled" /\ ~paid /\ Len(read_csv(paid_claims_csv)) >= 1
    \/ pc = "settled" /\ paid /\ Len(read_csv(paid_claims_csv)) >= 2

\* C8: when the extractor raises, the process is dead: no summary line is
\* printed and only the claims before the failing one are decided.  A summary
\* line is printed at most once, only after every claim of the batch is
\* decided and after the last outcome line; and a process whose claims are
\* all decided has printed it or is about to.
C8_ExtractionFailureAborts ==
    /\ err = "ExtractionFailure" =>
          /\ pc = "crashed"
          /\ NumLines("Batch complete") = 0
          /\ i <= Len(files)
          /\ NumOutcomes = NumClaimsUpTo(i - 1)
    /\ NumLines("Batch complete") <= 1
    /\ \A k \in DOMAIN out :
          out[k].kind = "Batch complete" =>
              /\ NumOutcomes = NumClaims
              /\ \A j \in DOMAIN out : IsOutcomeLine(out[j]) => j < k
    /\ pc \in {"metrics", "done"} => NumLines("Batch complete") = 1
    /\ (run > 0 /\ NumOutcomes = NumClaims /\ NumLines("Batch complete") = 0) =>
          (pc = "loop" /\ err = "none")

\* C8 witness: the extractor raised on a claim that is followed by another.
C8_Witness ==
    /\ err = "ExtractionFailure"
    /\ i < Len(files)
    /\ endswith_hl7(files[i + 1])

\* C9: each list holds one code per entity of its class, in extraction order
\* and with repetitions kept; entities of neither class add nothing; no
\* entities give two empty lists.
C9_AutocoderAccumulation ==
    AutocodeReturned =>
        /\ coded.ICD = [k \in 1..Len(DiagnosisEntities) |->
                           code_map_get(lower(DiagnosisEntities[k]), "Unmapped")]
        /\ coded.CPT = [k \in 1..Len(ProcedureEntities) |->
                           code_map_get(lower(ProcedureEntities[k]), "Unmapped")]
        /\ Len(coded.ICD) + Len(coded.CPT) <= Len(entities)
        /\ entities = <<>> => coded = [ICD |-> <<>>, CPT |-> <<>>]

\* C9 witness: the same diagnosis entity twice gives its code twice.
C9_Witness ==
    /\ pc = "returned"
    /\ Len(entities) = 2
    /\ entities[1] = entities[2]
    /\ coded.ICD = <<"E11.9", "E11.9">>

\* C10: every entry of the procedure (CPT) list is "Unmapped"; the mapped
\* procedure codes 82947 and 99213 appear in the diagnosis (ICD) list only.
C10_ProcedureCodesNeverReal ==
    \A k \in DOMAIN coded.CPT : coded.CPT[k] = "Unmapped"

\* C10 witness: a procedure entity was recorded next to a blood test that
\* went to the diagnosis list with its procedure code.
C10_Witness ==
    /\ pc = "returned"
    /\ Len(coded.CPT) = 1
    /\ coded.ICD = <<"82947">>

====
